---- MODULE Spec2Model ----
(***************************************************************************)
(* A model of the notebook rag.ipynb of minump/HandsOn-RAG, run from its   *)
(* first cell to its last: the four directory loaders, get_text_metadatas, *)
(* the text splitter, the vector store, the retriever and the three RAG    *)
(* chains.                                                                 *)
(*                                                                         *)
(* Text is a sequence of one-character strings.  Python values whose type  *)
(* varies at run time (row_page is an int for a CSV row and '' for a Word  *)
(* file) are tagged records, see PyInt and PyStr.                          *)
(*                                                                         *)
(* The library calls are modelled by what the notebook relies on:          *)
(*   - a loader yields one Document per row / page / file;                 *)
(*   - split_text(text) yields contiguous pieces of text that may overlap; *)
(*   - the retriever yields documents of the store, which ones is open;    *)
(*   - every call that talks to a file, a service or a model may raise.    *)
(***************************************************************************)
EXTENDS Integers, Sequences, FiniteSets, TLC

\* ------------------------------------------------------------------ bounds
\* at most this many chunks are cut from one text
MaxChunks == 2
\* the retriever returns at most this many documents
MaxRetrieved == 2
\* the data directory holds at most this many files, or all of AllFiles
MaxDirFiles == 2
\* format_docs is given at most this many documents
MaxJoin == 2

\* ------------------------------------------------------------ Python values
PyInt(n) == [t |-> "int", v |-> n]
PyStr(s) == [t |-> "str", v |-> s]

\* ------------------------------------------------------- the data directory
\* The files a data directory may hold: two CSV files (one in a
\* sub-directory), two PDFs, a Word file, an RST file and a text file.
AllFiles ==
  { [path |-> "data/a.csv",     ext |-> "csv"],
    [path |-> "data/sub/b.csv", ext |-> "csv"],
    [path |-> "data/p.pdf",     ext |-> "pdf"],
    [path |-> "data/sub/s.pdf", ext |-> "pdf"],
    [path |-> "data/w.docx",    ext |-> "docx"],
    [path |-> "data/sub/r.rst", ext |-> "rst"],
    [path |-> "data/n.txt",     ext |-> "txt"] }

\* The data directories of the model: the small ones, and the one that holds
\* every file.
Dirs == { d \in SUBSET AllFiles : Cardinality(d) <= MaxDirFiles \/ d = AllFiles }

\* The units of text of a file: the rows of a CSV file, the pages of a PDF,
\* the whole text of a Word or an RST file.
FileUnits(f) ==
  CASE f.path = "data/a.csv"     -> << <<"x">>, <<"y">> >>
    [] f.path = "data/sub/b.csv" -> << <<"x">> >>
    [] f.path = "data/p.pdf"     -> << <<"p", " ", "q">> >>
    [] f.path = "data/sub/s.pdf" -> << <<"s">> >>
    [] f.path = "data/w.docx"    -> << <<"w">> >>
    [] f.path = "data/sub/r.rst" -> << <<"r">> >>
    [] OTHER                     -> << <<"n">> >>

\* ---------------------------------------------------------------- loaders
\* The statements of the notebook that call a library, in cell order.
Program ==
  << "csv_load", "word_load", "pdf_load", "rst_load",
     "get_text_metadatas", "create_documents", "from_documents",
     "as_retriever", "hub_pull",
     "llm_invoke", "openai_rag_invoke",
     "ollama_invoke", "ollama_rag_invoke",
     "with_source_invoke" >>

Loads == {"csv_load", "word_load", "pdf_load", "rst_load"}

\* the variable a statement binds
Output(stmt) ==
  CASE stmt = "csv_load"           -> "csv_data"
    [] stmt = "word_load"          -> "word_data"
    [] stmt = "pdf_load"           -> "pdf_data"
    [] stmt = "rst_load"           -> "rst_data"
    [] stmt = "get_text_metadatas" -> "texts"
    [] stmt = "create_documents"   -> "docs"
    [] stmt = "from_documents"     -> "vectorstore"
    [] stmt = "as_retriever"       -> "retriever"
    [] stmt = "hub_pull"           -> "prompt"
    [] OTHER                       -> stmt

\* DataLoaders.csv_loader .. rst_loader: the glob of each directory loader
glob(stmt) ==
  CASE stmt = "csv_load"  -> "csv"
    [] stmt = "pdf_load"  -> "pdf"
    [] stmt = "word_load" -> "docx"
    [] stmt = "rst_load"  -> "rst"

\* the files under the data directory, at any depth, that a glob matches
Matches(files, stmt) == { f \in files : f.ext = glob(stmt) }

\* every directory loader is given use_multithreading=True
use_multithreading_all(stmt) == TRUE

\* DirectoryLoader(..., use_multithreading=True) is given to the CSV loader only
use_multithreading(stmt) == stmt = "csv_load"

\* loader_cls of each directory loader: the Documents of one file
RECURSIVE UnitDocs(_, _, _)
UnitDocs(f, units, i) ==
  IF i > Len(units) THEN << >>
  ELSE << [ page_content |-> units[i],
            metadata |->
              CASE f.ext = "csv" -> [source |-> f.path, row  |-> PyInt(i - 1)]
                [] f.ext = "pdf" -> [source |-> f.path, page |-> PyInt(i - 1)]
                [] OTHER         -> [source |-> f.path] ] >>
       \o UnitDocs(f, units, i + 1)

load_file(f) == UnitDocs(f, FileUnits(f), 1)

\* ------------------------------------------------------ get_text_metadatas
RECURSIVE page_contents(_)
page_contents(data) ==
  IF data = << >> THEN << >>
  ELSE << Head(data).page_content >> \o page_contents(Tail(data))

\* the row number is left out of the metadata of a CSV row
RECURSIVE csv_metadatas_norow(_)
csv_metadatas_norow(data) ==
  IF data = << >> THEN << >>
  ELSE << [source |-> Head(data).metadata.source, row_page |-> PyStr("")] >>
       \o csv_metadatas_norow(Tail(data))

RECURSIVE csv_metadatas(_)
csv_metadatas(data) ==
  IF data = << >> THEN << >>
  ELSE << [source |-> Head(data).metadata.source,
           row_page |-> Head(data).metadata.row] >>
       \o csv_metadatas(Tail(data))

RECURSIVE pdf_metadatas(_)
pdf_metadatas(data) ==
  IF data = << >> THEN << >>
  ELSE << [source |-> Head(data).metadata.source,
           row_page |-> Head(data).metadata.page] >>
       \o pdf_metadatas(Tail(data))

\* word_metadatas and rst_metadatas are the same comprehension
RECURSIVE plain_metadatas(_)
plain_metadatas(data) ==
  IF data = << >> THEN << >>
  ELSE << [source |-> Head(data).metadata.source, row_page |-> PyStr("")] >>
       \o plain_metadatas(Tail(data))

\* the metadatas are concatenated in the order the data was loaded in (csv,
\* word, pdf, rst), the texts in the order of the parameters
get_text_metadatas_order(csv, pdf, word, rst) ==
  [ texts     |-> page_contents(csv) \o page_contents(pdf)
                  \o page_contents(word) \o page_contents(rst),
    metadatas |-> csv_metadatas(csv) \o plain_metadatas(word)
                  \o pdf_metadatas(pdf) \o plain_metadatas(rst) ]

\* the RST documents are left out of both lists
get_text_metadatas_norst(csv, pdf, word, rst) ==
  [ texts     |-> page_contents(csv) \o page_contents(pdf) \o page_contents(word),
    metadatas |-> csv_metadatas(csv) \o pdf_metadatas(pdf) \o plain_metadatas(word) ]

get_text_metadatas(csv, pdf, word, rst) ==
  [ texts     |-> page_contents(csv) \o page_contents(pdf)
                  \o page_contents(word) \o page_contents(rst),
    metadatas |-> csv_metadatas(csv) \o pdf_metadatas(pdf)
                  \o plain_metadatas(word) \o plain_metadatas(rst) ]

\* ------------------------------------------------------------ text splitter
\* the piece of text from position w[1] to position w[2]
Piece(text, w) == SubSeq(text, w[1], w[2])

Windows(n) == { w \in (1..n) \X (1..n) : w[1] <= w[2] }

\* RecursiveCharacterTextSplitter.split_text, as far as the notebook relies on
\* it: the chunks of a text are contiguous pieces that cover it from its first
\* to its last character, each starting after the one before and at most
\* where that one ends (chunk_overlap lets neighbours share text).
split_text(text) ==
  LET n == Len(text)
  IN  { cs \in UNION { [1..m -> Windows(n)] : m \in 1..MaxChunks } :
          /\ cs[1][1] = 1
          /\ cs[Len(cs)][2] = n
          /\ \A i \in 1..(Len(cs) - 1) :
               /\ cs[i][1] < cs[i + 1][1]
               /\ cs[i + 1][1] <= cs[i][2] + 1
               /\ cs[i][2] < cs[i + 1][2] }

\* the chunks of one text as Documents carrying the metadata given for it
RECURSIVE ChunkDocs(_, _, _, _)
ChunkDocs(text, metadata, cs, k) ==
  IF k > Len(cs) THEN << >>
  ELSE << [page_content |-> Piece(text, cs[k]), metadata |-> metadata] >>
       \o ChunkDocs(text, metadata, cs, k + 1)

\* the metadata create_documents gives the chunks of texts[i]
chunk_metadata(mds, i) == mds[i]

\* text_splitter.create_documents(texts=texts, metadatas=metadatas), where
\* cut[i] is the way texts[i] is split
RECURSIVE create_documents(_, _, _, _)
create_documents(txts, mds, cut, i) ==
  IF i > Len(txts) THEN << >>
  ELSE ChunkDocs(txts[i], chunk_metadata(mds, i), cut[i], 1)
       \o create_documents(txts, mds, cut, i + 1)

\* the ways to split every text of a list
Cuts(txts) ==
  { cut \in [1..Len(txts) -> UNION { split_text(txts[i]) : i \in 1..Len(txts) }] :
      \A i \in 1..Len(txts) : cut[i] \in split_text(txts[i]) }

\* ------------------------------------------------------------ the chains
\* questions put to the models and the chains
Queries == {"What material is used?", "What is the capital of the world?"}

Invokes == {"llm_invoke", "openai_rag_invoke", "ollama_invoke",
            "ollama_rag_invoke", "with_source_invoke"}

PyNone    == [t |-> "none", v |-> << >>]
PyDocs(d) == [t |-> "docs", v |-> d]

\* the separator is added after every document, the last one too
RECURSIVE format_docs_trailing(_)
format_docs_trailing(ds) ==
  IF ds = << >> THEN << >>
  ELSE Head(ds).page_content \o <<"\n", "\n">> \o format_docs_trailing(Tail(ds))

\* format_docs(docs): "\n\n".join(doc.page_content for doc in docs)
RECURSIVE format_docs(_)
format_docs(ds) ==
  IF ds = << >> THEN << >>
  ELSE IF Len(ds) = 1 THEN Head(ds).page_content
  ELSE Head(ds).page_content \o <<"\n", "\n">> \o format_docs(Tail(ds))

\* the question is stripped to nothing
RunnablePassthrough_empty(v) == ""

\* RunnablePassthrough(): the input, as it is
RunnablePassthrough(v) == v

\* the input a map ({"context": ..., "question": ...}) hands to its branches
BranchInput(v) == v

\* retriever.invoke(q): documents of the store, at most MaxRetrieved, no
\* document twice; which ones depends on the embeddings.  They are listed
\* in the order of the store: no statement of the notebook looks at their rank.
Retrieve(store, q) ==
  LET k == IF Len(store) < MaxRetrieved THEN Len(store) ELSE MaxRetrieved
  IN  { [i \in 1..k |-> store[ixs[i]]] :
          ixs \in { f \in [1..k -> 1..Len(store)] :
                      \A a, b \in 1..k : a < b => f[a] < f[b] } }

\* prompt.invoke(d): the rlm/rag-prompt template filled with d
prompt(d) == [template |-> "rlm/rag-prompt", context |-> d.context, question |-> d.question]

\* a plain string given to a model
PlainPrompt(q) == [template |-> "", context |-> PyNone, question |-> q]

\* llm.invoke / ollamallm.invoke: ChatOpenAI returns a message, Ollama a string
LLM(model, input) ==
  [ t |-> IF model = "gpt-4o-mini" THEN "AIMessage" ELSE "str",
    content |-> [by |-> model, for |-> input] ]

\* StrOutputParser(): the text of a message, a string as it is
StrOutputParser(out) == out.content

NoPrompt  == PlainPrompt("")
NoContent == [by |-> "", for |-> NoPrompt]
NoDict    == [keys |-> {}, context |-> PyNone, question |-> "", answer |-> NoContent]
NoOut     == [t |-> "none", content |-> NoContent]
NoResult  == [t |-> "none", keys |-> {}, context |-> PyNone, question |-> "", answer |-> NoContent]

\* A chain is the sequence of its stages, the steps of the "context" branch
\* of its map, and its model.
\* the model is piped in before the prompt
openai_rag_chain_llm_first ==
  [ stages  |-> <<"map", "llm", "prompt", "parse">>,
    context |-> <<"retriever", "format_docs">>,
    model   |-> "gpt-4o-mini" ]

openai_rag_chain ==
  [ stages  |-> <<"map", "prompt", "llm", "parse">>,
    context |-> <<"retriever", "format_docs">>,
    model   |-> "gpt-4o-mini" ]

ollama_rag_chain ==
  [ stages  |-> <<"map", "prompt", "llm", "parse">>,
    context |-> <<"retriever", "format_docs">>,
    model   |-> "llama3.2:latest" ]

\* the documents are not formatted before the prompt
openai_rag_chain_from_docs_raw ==
  [ stages  |-> <<"prompt", "llm", "parse">>,
    context |-> << >>,
    model   |-> "gpt-4o-mini" ]

openai_rag_chain_from_docs ==
  [ stages  |-> <<"assign_context", "prompt", "llm", "parse">>,
    context |-> << >>,
    model   |-> "gpt-4o-mini" ]

openai_rag_chain_with_source ==
  [ stages  |-> <<"map">> \o openai_rag_chain_from_docs.stages \o <<"assign_answer">>,
    context |-> <<"retriever">>,
    model   |-> openai_rag_chain_from_docs.model ]

\* llm.invoke(q) and ollamallm.invoke(q), without RAG
llm       == [stages |-> <<"llm">>, context |-> << >>, model |-> "gpt-4o-mini"]
ollamallm == [stages |-> <<"llm">>, context |-> << >>, model |-> "llama3.2:latest"]

NoChain == [stages |-> << >>, context |-> << >>, model |-> ""]

ChainOf(s) ==
  CASE s = "llm_invoke"         -> llm
    [] s = "openai_rag_invoke"  -> openai_rag_chain
    [] s = "ollama_invoke"      -> ollamallm
    [] s = "ollama_rag_invoke"  -> ollama_rag_chain
    [] s = "with_source_invoke" -> openai_rag_chain_with_source
    [] OTHER                    -> NoChain

\* ------------------------------------------------------------------- state
VARIABLES
  fs,          \* the files under data_dir_path
  pc,          \* the next statement of Program
  status,      \* "ready", "running" (a statement is in progress) or "error"
  failed,      \* the statement whose call raised, "" if none
  bound,       \* the notebook variables that are bound
  calls,       \* how often the notebook issued the call of each statement
  pending,     \* files the running directory loader has yet to load
  running,     \* files whose load is in progress
  acc,         \* the Documents the running directory loader has so far
  csv_data, word_data, pdf_data, rst_data,
  texts, metadatas,
  docs,
  vectorstore,
  chain,       \* the chain the running invoke statement runs
  ix,          \* the next stage of chain
  query,       \* the argument of invoke
  branches,    \* the branches of the map that are in progress
  joined,      \* the branches of the map that have returned
  cur,         \* the dict that flows from stage to stage
  mapOut,      \* the dict the map returned
  retrieved,   \* the calls of the retriever in this invocation, with results
  promptValue, \* the prompt built in this invocation
  llmIn,       \* the inputs the model was called with in this invocation
  llmOut,      \* what the model returned
  answer,      \* what the output parser returned
  result,      \* what invoke returned
  steps,       \* the steps of this invocation, in the order they were taken
  fmt_in,      \* the documents given to a call of format_docs on its own
  fmt_out,     \* what that call returned
  fmt_done,    \* whether that call has returned
  attempts     \* the requests the client has sent for the model call in progress

ctlVars  == << pc, status, failed, bound, calls >>
loadVars == << pending, running, acc >>
dataVars == << csv_data, word_data, pdf_data, rst_data >>
prepVars == << texts, metadatas, docs, vectorstore >>
mapVars  == << branches, joined, cur, retrieved >>
genVars  == << promptValue, llmIn, llmOut, answer >>
invVars  == << chain, ix, query, mapVars, mapOut, genVars, result, steps >>
fmtVars  == << fmt_in, fmt_out, fmt_done >>
auxVars  == << fmtVars, attempts >>
vars == << fs, ctlVars, loadVars, dataVars, prepVars, invVars, auxVars >>

stmt == IF pc <= Len(Program) THEN Program[pc] ELSE "end"

\* the notebook before its first cell has run
Fresh ==
  /\ pc = 1
  /\ status = "ready"
  /\ failed = ""
  /\ bound = {}
  /\ calls = [s \in { Program[i] : i \in 1..Len(Program) } |-> 0]
  /\ pending = {}
  /\ running = {}
  /\ acc = << >>
  /\ csv_data = << >> /\ word_data = << >> /\ pdf_data = << >> /\ rst_data = << >>
  /\ texts = << >> /\ metadatas = << >>
  /\ docs = << >>
  /\ vectorstore = << >>
  /\ chain = NoChain
  /\ ix = 1
  /\ query = ""
  /\ branches = {}
  /\ joined = {}
  /\ cur = NoDict
  /\ mapOut = NoDict
  /\ retrieved = << >>
  /\ promptValue = NoPrompt
  /\ llmIn = << >>
  /\ llmOut = NoOut
  /\ answer = NoContent
  /\ result = NoResult
  /\ steps = << >>

\* no call of format_docs on its own
FmtIdle == fmt_in = << >> /\ fmt_out = << >> /\ fmt_done = FALSE

Init ==
  /\ fs \in Dirs
  /\ Fresh
  /\ FmtIdle
  /\ attempts = 0

\* ------------------------------------------------------ statement outcomes
\* x is bound to what the call had so far
BoundOnRaise_partial(b, s) == b \cup {Output(s)}

\* x = call(...): when the call raises, x is not assigned
BoundOnRaise(b, s) == b

\* the call of the current statement raises: the run of the notebook stops
Raise ==
  /\ status' = "error"
  /\ failed' = stmt
  /\ bound' = BoundOnRaise(bound, stmt)
  /\ pc' = pc

\* the current statement returns and binds the variables vs
Return(vs) ==
  /\ status' = "ready"
  /\ failed' = failed
  /\ bound' = bound \cup vs
  /\ pc' = pc + 1

Issue == calls' = [calls EXCEPT ![stmt] = @ + 1]

\* ------------------------------------------------------ the load data cell
\* dir_*_loader.load() begins: the glob is expanded; a multithreaded loader
\* hands every file to its thread pool, another one walks the files in turn
LoadStart ==
  /\ status = "ready"
  /\ stmt \in Loads
  /\ Issue
  /\ status' = "running"
  /\ acc' = << >>
  /\ IF use_multithreading(stmt)
       THEN running' = Matches(fs, stmt) /\ pending' = {}
       ELSE pending' = Matches(fs, stmt) /\ running' = {}
  /\ UNCHANGED << fs, auxVars, pc, failed, bound, dataVars, prepVars, invVars >>

\* a loader without threads begins the next file when none is in progress
FileBegin(f) ==
  /\ status = "running"
  /\ stmt \in Loads
  /\ f \in pending
  /\ running = {}
  /\ running' = {f}
  /\ pending' = pending \ {f}
  /\ UNCHANGED << fs, auxVars, ctlVars, acc, dataVars, prepVars, invVars >>

\* the load of a file ends: its Documents are added to the loader's list
FileEnd(f) ==
  /\ status = "running"
  /\ stmt \in Loads
  /\ f \in running
  /\ running' = running \ {f}
  /\ acc' = acc \o load_file(f)
  /\ UNCHANGED << fs, auxVars, ctlVars, pending, dataVars, prepVars, invVars >>

\* the load of a file raises: load() raises (silent_errors is not set)
FileRaise(f) ==
  /\ status = "running"
  /\ stmt \in Loads
  /\ f \in running
  /\ Raise
  /\ running' = {}
  /\ pending' = {}
  /\ UNCHANGED << fs, auxVars, calls, acc, dataVars, prepVars, invVars >>

\* load() returns and the statement binds its variable
LoadEnd ==
  /\ status = "running"
  /\ stmt \in Loads
  /\ pending = {}
  /\ running = {}
  /\ Return({Output(stmt)})
  /\ csv_data'  = IF stmt = "csv_load"  THEN acc ELSE csv_data
  /\ word_data' = IF stmt = "word_load" THEN acc ELSE word_data
  /\ pdf_data'  = IF stmt = "pdf_load"  THEN acc ELSE pdf_data
  /\ rst_data'  = IF stmt = "rst_load"  THEN acc ELSE rst_data
  /\ acc' = << >>
  /\ UNCHANGED << fs, auxVars, calls, pending, running, prepVars, invVars >>

\* ------------------------------------------------------- preparing the data
\* texts, metadatas = get_text_metadatas(csv_data, pdf_data, word_data, rst_data)
Format ==
  /\ status = "ready"
  /\ stmt = "get_text_metadatas"
  /\ Issue
  /\ LET r == get_text_metadatas(csv_data, pdf_data, word_data, rst_data)
     IN  texts' = r.texts /\ metadatas' = r.metadatas
  /\ Return({"texts", "metadatas"})
  /\ UNCHANGED << fs, auxVars, loadVars, dataVars, docs, vectorstore, invVars >>

\* docs = text_splitter.create_documents(texts=texts, metadatas=metadatas)
Split ==
  /\ status = "ready"
  /\ stmt = "create_documents"
  /\ Issue
  /\ \E cut \in Cuts(texts) : docs' = create_documents(texts, metadatas, cut, 1)
  /\ Return({"docs"})
  /\ UNCHANGED << fs, auxVars, loadVars, dataVars, texts, metadatas, vectorstore, invVars >>

\* vectorstore = Qdrant.from_documents(documents=docs, ...): every chunk is
\* embedded and inserted
Store ==
  /\ status = "ready"
  /\ stmt = "from_documents"
  /\ Issue
  /\ vectorstore' = docs
  /\ Return({"vectorstore"})
  /\ UNCHANGED << fs, auxVars, loadVars, dataVars, texts, metadatas, docs, invVars >>

\* retriever = vectorstore.as_retriever() and prompt = hub.pull("rlm/rag-prompt")
Setup ==
  /\ status = "ready"
  /\ stmt \in {"as_retriever", "hub_pull"}
  /\ Issue
  /\ Return({Output(stmt)})
  /\ UNCHANGED << fs, auxVars, loadVars, dataVars, prepVars, invVars >>

\* the tokenizer, the embeddings service or the prompt hub raises
StmtRaise ==
  /\ status = "ready"
  /\ stmt \in {"create_documents", "from_documents", "hub_pull"}
  /\ Issue
  /\ Raise
  /\ UNCHANGED << fs, auxVars, loadVars, dataVars, prepVars, invVars >>

\* -------------------------------------------------------- invoking a chain
Range(sq) == { sq[i] : i \in 1..Len(sq) }

Stage(name) ==
  /\ status = "running"
  /\ stmt \in Invokes
  /\ ix <= Len(chain.stages)
  /\ chain.stages[ix] = name

\* chain.invoke(q) begins
InvokeStart(q) ==
  /\ status = "ready"
  /\ stmt \in Invokes
  /\ Issue
  /\ status' = "running"
  /\ chain' = ChainOf(stmt)
  /\ ix' = 1
  /\ query' = q
  /\ branches' = {} /\ joined' = {}
  /\ cur' = NoDict /\ mapOut' = NoDict
  /\ retrieved' = << >>
  /\ promptValue' = NoPrompt
  /\ llmIn' = << >> /\ llmOut' = NoOut /\ answer' = NoContent
  /\ result' = NoResult
  /\ steps' = << >>
  /\ attempts' = 0
  /\ UNCHANGED << fs, fmtVars, pc, failed, bound, loadVars, dataVars, prepVars >>

\* {"context": ..., "question": RunnablePassthrough()} is a RunnableParallel:
\* it hands both branches to a thread pool
MapStart ==
  /\ Stage("map")
  /\ branches = {} /\ joined = {}
  /\ branches' = {"context", "question"}
  /\ UNCHANGED << fs, auxVars, ctlVars, loadVars, dataVars, prepVars, chain, ix, query,
                  joined, cur, retrieved, mapOut, genVars, result, steps >>

\* the "context" branch: retriever, then format_docs where the chain has it
BranchContext ==
  /\ Stage("map")
  /\ "context" \in branches
  /\ \E ds \in Retrieve(vectorstore, BranchInput(query)) :
       /\ retrieved' = Append(retrieved, [query |-> BranchInput(query), docs |-> ds])
       /\ IF "format_docs" \in Range(chain.context)
            THEN /\ cur' = [cur EXCEPT !.context = PyStr(format_docs(ds)),
                                       !.keys = @ \cup {"context"}]
                 /\ steps' = steps \o <<"retrieve", "format_docs">>
            ELSE /\ cur' = [cur EXCEPT !.context = PyDocs(ds),
                                       !.keys = @ \cup {"context"}]
                 /\ steps' = steps \o <<"retrieve">>
  /\ branches' = branches \ {"context"}
  /\ joined' = joined \cup {"context"}
  /\ UNCHANGED << fs, auxVars, ctlVars, loadVars, dataVars, prepVars, chain, ix, query,
                  mapOut, genVars, result >>

\* the "question" branch
BranchQuestion ==
  /\ Stage("map")
  /\ "question" \in branches
  /\ cur' = [cur EXCEPT !.question = RunnablePassthrough(BranchInput(query)),
                        !.keys = @ \cup {"question"}]
  /\ steps' = Append(steps, "passthrough")
  /\ branches' = branches \ {"question"}
  /\ joined' = joined \cup {"question"}
  /\ UNCHANGED << fs, auxVars, ctlVars, loadVars, dataVars, prepVars, chain, ix, query,
                  retrieved, mapOut, genVars, result >>

\* the retriever raises (the query is embedded by a service)
BranchRaise ==
  /\ Stage("map")
  /\ "context" \in branches
  /\ Raise
  /\ branches' = {}
  /\ UNCHANGED << fs, auxVars, calls, loadVars, dataVars, prepVars, chain, ix, query,
                  joined, cur, retrieved, mapOut, genVars, result, steps >>

\* both branches have returned: the map returns its dict
MapJoin ==
  /\ Stage("map")
  /\ branches = {}
  /\ joined = {"context", "question"}
  /\ mapOut' = cur
  /\ ix' = ix + 1
  /\ UNCHANGED << fs, auxVars, ctlVars, loadVars, dataVars, prepVars, chain, query,
                  mapVars, genVars, result, steps >>

\* RunnablePassthrough.assign(context=(lambda x: format_docs(x["context"])))
AssignContext ==
  /\ Stage("assign_context")
  /\ cur' = [cur EXCEPT !.context = PyStr(format_docs(cur.context.v))]
  /\ steps' = Append(steps, "format_docs")
  /\ ix' = ix + 1
  /\ UNCHANGED << fs, auxVars, ctlVars, loadVars, dataVars, prepVars, chain, query,
                  branches, joined, retrieved, mapOut, genVars, result >>

\* | prompt
BuildPrompt ==
  /\ Stage("prompt")
  /\ promptValue' = prompt(cur)
  /\ steps' = Append(steps, "prompt")
  /\ ix' = ix + 1
  /\ UNCHANGED << fs, auxVars, ctlVars, loadVars, dataVars, prepVars, chain, query,
                  mapVars, mapOut, llmIn, llmOut, answer, result >>

\* what the model is given: the argument of invoke when the model is called
\* on its own, the prompt in a chain
LLMInput == IF ix = 1 THEN PlainPrompt(query) ELSE promptValue

\* | llm: the model returns
LLMReturns ==
  /\ Stage("llm")
  /\ llmIn' = Append(llmIn, LLMInput)
  /\ llmOut' = LLM(chain.model, LLMInput)
  /\ steps' = Append(steps, "llm")
  /\ ix' = ix + 1
  /\ UNCHANGED << fs, fmtVars, ctlVars, loadVars, dataVars, prepVars, chain, query,
                  mapVars, mapOut, promptValue, answer, result >>

\* | llm: the model raises
LLMRaises ==
  /\ Stage("llm")
  /\ llmIn' = Append(llmIn, LLMInput)
  /\ Raise
  /\ UNCHANGED << fs, fmtVars, calls, loadVars, dataVars, prepVars, chain, ix, query,
                  mapVars, mapOut, promptValue, llmOut, answer, result, steps >>

\* the call of the model, the requests of its client taken as one step
CallLLM == LLMReturns /\ UNCHANGED attempts

LLMRaise == LLMRaises /\ UNCHANGED attempts

\* ChatOpenAI(..., max_retries=500)
openai_max_retries == 500

\* both clients are given max_retries=500
max_retries_both(model) == openai_max_retries

\* the retries a client may make: llm is given max_retries, ollamallm is
\* given no retry parameter
max_retries(model) == IF model = llm.model THEN openai_max_retries ELSE 0

\* a request of the client fails and the client sends it again
TryAgain ==
  /\ Stage("llm")
  /\ attempts < max_retries(chain.model)
  /\ attempts' = attempts + 1
  /\ UNCHANGED << fs, fmtVars, ctlVars, loadVars, dataVars, prepVars, invVars >>

\* a request of the client is answered
TryReturns == LLMReturns /\ attempts' = attempts + 1

\* a request of the client fails and the client gives up: the error is not
\* one it retries, or no retry is left
TryRaises == LLMRaises /\ attempts' = attempts + 1

\* | StrOutputParser()
Parse ==
  /\ Stage("parse")
  /\ answer' = StrOutputParser(llmOut)
  /\ steps' = Append(steps, "parse")
  /\ ix' = ix + 1
  /\ UNCHANGED << fs, auxVars, ctlVars, loadVars, dataVars, prepVars, chain, query,
                  mapVars, mapOut, promptValue, llmIn, llmOut, result >>

\* .assign(answer=openai_rag_chain_from_docs): the dict the map returned,
\* with the answer added
AssignAnswer ==
  /\ Stage("assign_answer")
  /\ cur' = [mapOut EXCEPT !.answer = answer, !.keys = @ \cup {"answer"}]
  /\ steps' = Append(steps, "assign")
  /\ ix' = ix + 1
  /\ UNCHANGED << fs, auxVars, ctlVars, loadVars, dataVars, prepVars, chain, query,
                  branches, joined, retrieved, mapOut, genVars, result >>

\* what the last stage of the chain returned
Returned ==
  LET last == chain.stages[Len(chain.stages)]
  IN  CASE last = "assign_answer" ->
             [t |-> "dict", keys |-> cur.keys, context |-> cur.context,
              question |-> cur.question, answer |-> cur.answer]
        [] last = "parse" -> [NoResult EXCEPT !.t = "str", !.answer = answer]
        [] OTHER -> [NoResult EXCEPT !.t = llmOut.t, !.answer = llmOut.content]

\* chain.invoke(q) returns
InvokeEnd ==
  /\ status = "running"
  /\ stmt \in Invokes
  /\ ix > Len(chain.stages)
  /\ result' = Returned
  /\ Return({Output(stmt)})
  /\ UNCHANGED << fs, auxVars, calls, loadVars, dataVars, prepVars, chain, ix, query,
                  mapVars, mapOut, genVars, steps >>

Next ==
  \/ LoadStart
  \/ \E f \in AllFiles : FileBegin(f)
  \/ \E f \in AllFiles : FileEnd(f)
  \/ \E f \in AllFiles : FileRaise(f)
  \/ LoadEnd
  \/ Format
  \/ Split
  \/ Store
  \/ Setup
  \/ StmtRaise
  \/ \E q \in Queries : InvokeStart(q)
  \/ MapStart
  \/ BranchContext
  \/ BranchQuestion
  \/ BranchRaise
  \/ MapJoin
  \/ AssignContext
  \/ BuildPrompt
  \/ CallLLM
  \/ LLMRaise
  \/ Parse
  \/ AssignAnswer
  \/ InvokeEnd

Spec == Init /\ [][Next]_vars

\* ------------------------------------------------- format_docs on its own
FmtTexts == { << >>, <<"a">>, <<"\n">>, <<"b", "c">>, <<"\n", "\n", "a">> }

FmtDocs ==
  { [page_content |-> t, metadata |-> [source |-> src]] :
      t \in FmtTexts, src \in {"data/w.docx", "data/sub/r.rst"} }

FmtInputs == UNION { [1..n -> FmtDocs] : n \in 0..MaxJoin }

InitFormat ==
  /\ fs = {}
  /\ Fresh
  /\ fmt_in \in FmtInputs
  /\ fmt_out = << >>
  /\ fmt_done = FALSE
  /\ attempts = 0

\* format_docs(docs) is called and returns
ApplyFormat ==
  /\ ~fmt_done
  /\ fmt_out' = format_docs(fmt_in)
  /\ fmt_done' = TRUE
  /\ UNCHANGED << fs, ctlVars, loadVars, dataVars, prepVars, invVars, fmt_in,
                  attempts >>

NextFormat == ApplyFormat

SpecFormat == InitFormat /\ [][NextFormat]_vars

\* --------------------------------------- the notebook, request by request
\* The run of the notebook over a directory of one PDF, with every request
\* of a model's client as a step of its own.
InitRetry ==
  /\ fs = { f \in AllFiles : f.path = "data/sub/s.pdf" }
  /\ Fresh
  /\ FmtIdle
  /\ attempts = 0

NextRetry ==
  \/ LoadStart
  \/ \E f \in AllFiles : FileBegin(f)
  \/ \E f \in AllFiles : FileEnd(f)
  \/ \E f \in AllFiles : FileRaise(f)
  \/ LoadEnd
  \/ Format
  \/ Split
  \/ Store
  \/ Setup
  \/ StmtRaise
  \/ \E q \in Queries : InvokeStart(q)
  \/ MapStart
  \/ BranchContext
  \/ BranchQuestion
  \/ BranchRaise
  \/ MapJoin
  \/ AssignContext
  \/ BuildPrompt
  \/ TryAgain
  \/ TryReturns
  \/ TryRaises
  \/ Parse
  \/ AssignAnswer
  \/ InvokeEnd

\* a cell that runs goes on running: no step of the notebook waits for another
SpecRetry == InitRetry /\ [][NextRetry]_vars /\ WF_vars(NextRetry)

\* ================================================================== claims
\* the Documents given to get_text_metadatas, in the order of its parameters
InputDocs == csv_data \o pdf_data \o word_data \o rst_data

Loaded == {"csv_data", "word_data", "pdf_data", "rst_data"} \subseteq bound

\* piece is a contiguous part of text
IsPieceOf(piece, text) ==
  \E w \in Windows(Len(text)) : piece = Piece(text, w)

Pos(e) == IF e \in Range(steps)
            THEN CHOOSE i \in 1..Len(steps) :
                   steps[i] = e /\ \A j \in 1..(i - 1) : steps[j] # e
            ELSE 0

\* C1: texts and metadatas have the same length and, at every index, the
\* text and the source of the metadata are those of one and the same
\* Document given to get_text_metadatas.
C1_Aligned ==
  "texts" \in bound =>
    /\ Len(texts) = Len(metadatas)
    /\ \A i \in 1..Len(texts) :
         \E j \in 1..Len(InputDocs) :
           /\ texts[i] = InputDocs[j].page_content
           /\ metadatas[i].source = InputDocs[j].metadata.source

C1_Witness ==
  /\ "texts" \in bound
  /\ csv_data # << >> /\ pdf_data # << >> /\ word_data # << >> /\ rst_data # << >>

\* C2: every chunk of docs is a piece of one text texts[i] and carries
\* metadatas[i]: the source of the Document the text came from and, for a
\* CSV row or a PDF page, its row or page number as row_page.
C2_ChunkFrom(c, data, key) ==
  \E j \in 1..Len(data) :
    /\ IsPieceOf(c.page_content, data[j].page_content)
    /\ c.metadata.source = data[j].metadata.source
    /\ c.metadata.row_page =
         CASE key = "row"  -> data[j].metadata.row
           [] key = "page" -> data[j].metadata.page
           [] OTHER        -> PyStr("")

C2_ChunkMetadata ==
  "docs" \in bound =>
    \A k \in 1..Len(docs) :
      /\ \E i \in 1..Len(texts) :
           /\ IsPieceOf(docs[k].page_content, texts[i])
           /\ docs[k].metadata = metadatas[i]
      /\ \/ C2_ChunkFrom(docs[k], csv_data, "row")
         \/ C2_ChunkFrom(docs[k], pdf_data, "page")
         \/ C2_ChunkFrom(docs[k], word_data, "")
         \/ C2_ChunkFrom(docs[k], rst_data, "")

C2_Witness ==
  /\ "docs" \in bound
  /\ Len(docs) > Len(texts)
  /\ Len(csv_data) > 1 /\ pdf_data # << >> /\ word_data # << >>

\* C3: get_text_metadatas yields one text and one metadata per Document it
\* is given: as many as the four lists hold together, the i-th text being
\* the page_content of the i-th Document, none dropped, repeated or merged.
C3_OnePerUnit ==
  "texts" \in bound =>
    /\ Len(texts) = Len(csv_data) + Len(pdf_data) + Len(word_data) + Len(rst_data)
    /\ Len(metadatas) = Len(texts)
    /\ \A i \in 1..Len(texts) : texts[i] = InputDocs[i].page_content

C3_Witness ==
  /\ "texts" \in bound
  /\ Len(csv_data) = 3 /\ Len(pdf_data) = 2 /\ Len(word_data) = 1 /\ Len(rst_data) = 1
  /\ Len(texts) = 7

\* C4, as claimed: never are two operations in progress at once, the loads
\* of single files and the branches of a map included.
C4_Sequential == Cardinality(running) + Cardinality(branches) <= 1

\* C4, amended: one statement runs at a time and the Word, PDF and RST
\* loaders load one file at a time; only the file loads of the CSV loader,
\* and the two branches of a chain's map, are in progress together.
C4_OnlyPoolsOverlap ==
  /\ Cardinality(running) > 1 => stmt = "csv_load"
  /\ running # {} => status = "running" /\ stmt \in Loads /\ branches = {}
  /\ branches # {} => status = "running" /\ stmt \in Invokes /\ running = {}
  /\ branches \subseteq {"context", "question"}

C4_Witness ==
  /\ stmt = "csv_load"
  /\ Cardinality(running) = 2

\* C5: a call that raises stops the run at its statement: the variable the
\* statement would bind stays unbound, and so does every later one; no call
\* is issued a second time by the notebook, neither a statement nor the
\* retriever or the model within an invocation.
C5_NoRecovery ==
  /\ status = "error" =>
       /\ failed = stmt
       /\ Output(failed) \notin bound
       /\ calls[failed] = 1
  /\ \A i \in 1..Len(Program) :
       /\ calls[Program[i]] <= 1
       /\ i >= pc => Output(Program[i]) \notin bound
       /\ i > pc => calls[Program[i]] = 0
  /\ Len(retrieved) <= 1
  /\ Len(llmIn) <= 1

C5_Witness ==
  /\ status = "error"
  /\ failed = "csv_load"
  /\ acc # << >>

\* C6: once the four loaders have run, every file under data_dir_path is the
\* source of at least one loaded Document.
C6_AllFilesLoaded ==
  Loaded =>
    \A f \in fs :
      \E j \in 1..Len(InputDocs) : InputDocs[j].metadata.source = f.path

\* C7: in openai_rag_chain and ollama_rag_chain the question given to the
\* prompt is the argument of invoke, unchanged, and so is the query given
\* to the retriever.
C7_QueryAsIs ==
  (status = "running" /\ stmt \in {"openai_rag_invoke", "ollama_rag_invoke"}) =>
    /\ \A k \in 1..Len(retrieved) : retrieved[k].query = query
    /\ "question" \in cur.keys => cur.question = query
    /\ "prompt" \in Range(steps) => promptValue.question = query

C7_Witness ==
  /\ status = "running"
  /\ stmt = "ollama_rag_invoke"
  /\ "prompt" \in Range(steps)
  /\ retrieved # << >>
  /\ query = "What is the capital of the world?"

\* C8: openai_rag_chain_with_source.invoke(q) returns a dict of context,
\* question and answer: the question is q, the context is the list of
\* Documents the retriever returned for q, unformatted, and the answer is
\* what the model returned for the prompt built of that list, formatted,
\* and q; the retriever is called once.
C8_AnswerAndSources ==
  "with_source_invoke" \in bound =>
    /\ result.t = "dict"
    /\ result.keys = {"context", "question", "answer"}
    /\ result.question = query
    /\ Len(retrieved) = 1
    /\ retrieved[1].query = query
    /\ result.context = PyDocs(retrieved[1].docs)
    /\ Len(llmIn) = 1
    /\ llmIn[1] = prompt([context |-> PyStr(format_docs(retrieved[1].docs)),
                          question |-> query])
    /\ result.answer = StrOutputParser(LLM("gpt-4o-mini", llmIn[1]))

C8_Witness ==
  /\ "with_source_invoke" \in bound
  /\ Len(result.context.v) = 2
  /\ result.answer.for.question = "What material is used?"

\* C10: in an invocation of a RAG chain the retriever is called before the
\* prompt is built, the prompt is built before the model is called and the
\* model returns before the output parser runs; the data is loaded before
\* it is split, split before it is stored, and stored before any retrieval;
\* the context of the prompt the model is given is made of the Documents
\* retrieved in the same invocation.
C10_InSequence ==
  /\ chain.context # << >> =>
       /\ "prompt" \in Range(steps) => 0 < Pos("retrieve") /\ Pos("retrieve") < Pos("prompt")
       /\ "llm" \in Range(steps) => 0 < Pos("prompt") /\ Pos("prompt") < Pos("llm")
       /\ "parse" \in Range(steps) => 0 < Pos("llm") /\ Pos("llm") < Pos("parse")
       /\ \A k \in 1..Len(llmIn) :
            \E r \in 1..Len(retrieved) :
              llmIn[k].context = PyStr(format_docs(retrieved[r].docs))
  /\ "texts" \in bound => Loaded
  /\ "docs" \in bound => "texts" \in bound
  /\ "vectorstore" \in bound => "docs" \in bound /\ vectorstore = docs
  /\ retrieved # << >> => {"vectorstore", "retriever"} \subseteq bound

C10_Witness ==
  /\ chain = openai_rag_chain
  /\ "parse" \in Range(steps)
  /\ Len(retrieved) = 1 /\ Len(retrieved[1].docs) = 2

\* the place in format_docs(ds) before which the i-th page_content begins
RECURSIVE C11_Offset(_, _)
C11_Offset(ds, i) ==
  IF i <= 1 THEN 0
  ELSE C11_Offset(ds, i - 1) + Len(ds[i - 1].page_content) + 2

\* C11: format_docs returns the page_contents of its documents, in the
\* order given, with exactly two newlines between neighbours and nothing
\* else: the empty string for no document, the page_content alone for one
\* document, n - 1 separators for n documents, and no metadata.
C11_JoinedByTwoNewlines ==
  fmt_done =>
    LET n == Len(fmt_in)
        off(i) == C11_Offset(fmt_in, i)
    IN  /\ n = 0 => fmt_out = << >>
        /\ n = 1 => fmt_out = fmt_in[1].page_content
        /\ n >= 1 => Len(fmt_out) = off(n) + Len(fmt_in[n].page_content)
        /\ \A i \in 1..n :
             SubSeq(fmt_out, off(i) + 1, off(i) + Len(fmt_in[i].page_content))
               = fmt_in[i].page_content
        /\ \A i \in 2..n :
             fmt_out[off(i) - 1] = "\n" /\ fmt_out[off(i)] = "\n"

C11_Witness ==
  /\ fmt_done
  /\ Len(fmt_in) = 2
  /\ fmt_in[1].page_content = <<"b", "c">>
  /\ fmt_in[2].page_content = <<"a">>
  /\ fmt_in[1].metadata.source # fmt_in[2].metadata.source
  /\ fmt_out = <<"b", "c", "\n", "\n", "a">>

\* a model is being called
C12_Calling == status = "running" /\ stmt \in Invokes /\ Stage("llm")

C12_Bounded ==
  /\ attempts <= 501
  /\ chain.model = ollamallm.model => attempts <= 1
  /\ C12_Calling => attempts <= 500 /\ (chain.model = ollamallm.model => attempts = 0)
  /\ (status = "error" /\ failed \in Invokes /\ llmIn # << >>) => attempts >= 1
  /\ Len(llmIn) <= 1
  /\ \A i \in 1..Len(Program) : calls[Program[i]] <= 1

\* C12: a call of the model in a chain ends: the OpenAI client sends at most
\* 501 requests (max_retries + 1) and then the error is raised to the
\* caller; the Ollama client sends one request; the notebook calls the
\* client once per invocation and issues no invoke a second time.
C12_Terminates == []C12_Bounded /\ (C12_Calling ~> ~C12_Calling)

C12_Witness ==
  /\ status = "error"
  /\ failed = "openai_rag_invoke"
  /\ attempts = 501

====
